---------------------------- MODULE Spec2Model ----------------------------
(***************************************************************************)
(* SpeedIndexMetric.audit (src/audits/performance/speed-index-metric.js)   *)
(* as a state machine.  Each invocation is a promise chain                 *)
(*                                                                         *)
(*   Promise.resolve(artifacts.traceContents)                              *)
(*     .then(trace => ... speedline(trace))          CheckTrace            *)
(*     .then(results => ... {score, rawValue})       Score                 *)
(*     .catch(err => {score: -1, debugString})       Recover               *)
(*     .then(result => generateAuditResult(...))     Generate              *)
(*                                                                         *)
(* whose handlers run as separate jobs, so the handlers of concurrent      *)
(* invocations interleave.  The collaborators (the artifacts, speedline)   *)
(* are external: each of their outcomes is a nondeterministic choice.      *)
(*                                                                         *)
(* JavaScript values are records [t, v]: t is the kind of value and, for a *)
(* number, v is the number in thousandths (1500 is 1.5).                   *)
(***************************************************************************)
EXTENDS Integers, FiniteSets, Sequences, TLC

VARIABLES pc, trace, results, err, result, branch, out, speedlineCalls, inputs

vars == <<pc, trace, results, err, result, branch, out, speedlineCalls, inputs>>

\* Number of audit invocations in flight at once.
NInv == 2

Inv == 1..NInv

---------------------------------------------------------------------------
\* JavaScript values

Undefined == [t |-> "undefined", v |-> 0]
NaN == [t |-> "nan", v |-> 0]
Infinity == [t |-> "inf", v |-> 0]
NonNumeric == [t |-> "string", v |-> 0]
Num(n) == [t |-> "num", v |-> n]
\* the whole number n
Whole(n) == Num(n * 1000)

IsNum(x) == x.t = "num"

\* strings and the undefined value, for message fields
NoString == [t |-> "undefined", s |-> ""]
Str(s) == [t |-> "string", s |-> s]

\* values that can be thrown or be the reason of a rejection:
\*   Error(m)   an Error object whose message is m
\*   Bare       a value with no message property (a string, a plain object)
\*   Nullish    undefined or null: reading a property of it throws
Error(m) == [k |-> "Error", message |-> m]
Bare == [k |-> "bare", message |-> ""]
Nullish == [k |-> "nullish", message |-> ""]
NoErr == [k |-> "none", message |-> ""]

FAILURE_MESSAGE == "Navigation and first paint timings not found."

SCORING_POINT_OF_DIMINISHING_RETURNS == 1250

SCORING_MEDIAN == 5500

optimalValue == "1,000"

---------------------------------------------------------------------------
\* Math.* and the arithmetic of lines 88-96

\* ToNumber of a value handed to Math.round: undefined and a non-numeric
\* string become NaN
ToNumber(x) == IF x.t \in {"num", "inf", "nan"} THEN x ELSE NaN

Floor_MathRound(x) ==
    IF IsNum(x) THEN Num((x.v \div 1000) * 1000) ELSE ToNumber(x)

\* Math.round: the nearest integer, a half rounded up; NaN and Infinity
\* are returned unchanged
MathRound(x) ==
    IF IsNum(x) THEN Num(((x.v + 500) \div 1000) * 1000) ELSE ToNumber(x)

\* Math.min(100, score)
MathMin(bound, x) ==
    CASE x.t = "nan" -> NaN
      [] x.t = "inf" -> bound
      [] OTHER -> IF x.v < bound.v THEN x ELSE bound

\* Math.max(0, score)
MathMax(bound, x) ==
    CASE x.t = "nan" -> NaN
      [] x.t = "inf" -> Infinity
      [] OTHER -> IF x.v > bound.v THEN x ELSE bound

Inverted_ScaledScore(p) == IF IsNum(p) THEN Num(100 * (1000 - p.v)) ELSE p

\* 100 * distribution.computeComplementaryPercentile(...)
ScaledScore(p) == IF IsNum(p) THEN Num(100 * p.v) ELSE p

---------------------------------------------------------------------------
\* TracingProcessor.getLogNormalDistribution and the distribution's
\* computeComplementaryPercentile, from the specification's reference
\* points: piecewise linear between them, non-increasing, within [0, 1].

getLogNormalDistribution(median, falloff) ==
    [median |-> median, falloff |-> falloff]

\* <<measurement in ms, complementary percentile in thousandths>>
Anchors(distribution) ==
    << <<0, 1000>>, <<distribution.falloff, 910>>, <<2240, 900>>,
       <<3430, 750>>, <<distribution.median, 500>>, <<8820, 250>>,
       <<17400, 50>>, <<1000000, 0>> >>

\* a measurement the scorer is defined on: a finite number >= 0
IsValidMeasurement(x) == IsNum(x) /\ x.v >= 0

Interpolate(a, ms) ==
    IF ms >= a[Len(a)][1] THEN a[Len(a)][2]
    ELSE LET k == CHOOSE j \in 1..(Len(a) - 1) : a[j][1] <= ms /\ ms < a[j + 1][1]
         IN  a[k][2] - (((a[k][2] - a[k + 1][2]) * (ms - a[k][1]))
                            \div (a[k + 1][1] - a[k][1]))

\* what the scorer does on input it is not defined on: it throws, or returns
\* NaN, or returns some number, in or out of [0, 1]
UndefinedScoring ==
    { [k |-> "throw", p |-> NaN], [k |-> "return", p |-> NaN],
      [k |-> "return", p |-> Num(-200)], [k |-> "return", p |-> Num(1200)] }

computeComplementaryPercentile(distribution, x) ==
    IF IsValidMeasurement(x)
    THEN { [k |-> "return",
            p |-> Num(Interpolate(Anchors(distribution), x.v \div 1000))] }
    ELSE UndefinedScoring

NoScoring == [k |-> "none", p |-> NaN]

---------------------------------------------------------------------------
\* What the external collaborators can do

\* the argument of audit: absent (undefined or null), or an object
ArtifactsValues == {"undefined", "object"}

\* what artifacts.traceContents can resolve to
TraceValues == {"undefined", "object", "array"}

RejectionValues == {Error("boom"), Error(""), Bare, Nullish}

NoOutcome == [k |-> "none", val |-> "undefined", err |-> NoErr]

\* artifacts.traceContents is a value, or a promise that is fulfilled with
\* a value or rejected
TraceOutcomes ==
    { [k |-> "resolve", val |-> v, err |-> NoErr] : v \in TraceValues }
      \cup { [k |-> "reject", val |-> "undefined", err |-> e] : e \in RejectionValues }

SpeedIndexValues ==
    { Undefined, NonNumeric, Infinity, Num(-3500),
      Whole(0), Num(3000500), Whole(SCORING_MEDIAN), Whole(17400), Whole(1000000) }

NoResults == [t |-> "none", speedIndex |-> Undefined]

\* what speedline's promise can be fulfilled with: nothing, or an object
\* with a speedIndex property
ResultsValues ==
    { [t |-> "undefined", speedIndex |-> Undefined] }
      \cup { [t |-> "object", speedIndex |-> x] : x \in SpeedIndexValues }

NoSpeedline == [k |-> "none", val |-> NoResults, err |-> NoErr]

\* speedline(trace) throws, or returns a promise that is fulfilled or rejected
speedline ==
    { [k |-> "throw", val |-> NoResults, err |-> Error("boom")] }
      \cup { [k |-> "reject", val |-> NoResults, err |-> e] : e \in RejectionValues }
      \cup { [k |-> "resolve", val |-> r, err |-> NoErr] : r \in ResultsValues }

---------------------------------------------------------------------------
\* The handlers' computations

NoResult == [score |-> Undefined, rawValue |-> Undefined, debugString |-> NoString]

NoOut == [score |-> Undefined, rawValue |-> Undefined, debugString |-> NoString,
          optimalValue |-> ""]

OnlyFalsy_TraceIsBad(t) == t = "undefined"

\* !trace || !Array.isArray(trace)
TraceIsBad(t) == t = "undefined" \/ t # "array"

\* the TypeError of reading results.speedIndex when results is undefined
ResultsTypeError == Error("Cannot read property 'speedIndex' of undefined")

\* an exception of the scoring function
ScoringError == Error("scoring failed")

\* lines 88-97: the result of the scoring handler for the percentile p of
\* results.speedIndex
ScoreResult(p, speedIndex) ==
    [score |-> MathRound(MathMax(Whole(0), MathMin(Whole(100), ScaledScore(p)))),
     rawValue |-> MathRound(speedIndex),
     debugString |-> NoString]

\* err.message
MessageOf(e) == IF e.k = "Error" THEN Str(e.message) ELSE NoString

\* lines 100-103: the result of the recovery handler
RecoverResult(e) ==
    [score |-> Whole(-1), rawValue |-> Undefined, debugString |-> MessageOf(e)]

\* Audit.generateAuditResult: the output record of the audit
generateAuditResult(r) ==
    [score |-> r.value, rawValue |-> r.rawValue, debugString |-> r.debugString,
     optimalValue |-> r.optimalValue]

Shared_HandlerResult(i) ==
    IF \E j \in Inv \ {i} : result[j] # NoResult
    THEN result[CHOOSE j \in Inv \ {i} : result[j] # NoResult]
    ELSE result[i]

\* the result the last handler of invocation i is called with
HandlerResult(i) == result[i]

---------------------------------------------------------------------------
\* The state machine

NoInputs ==
    [artifacts |-> "none", trace |-> NoOutcome, speedline |-> NoSpeedline,
     scoring |-> NoScoring]

Init ==
    /\ pc = [i \in Inv |-> "start"]
    /\ trace = [i \in Inv |-> "undefined"]
    /\ results = [i \in Inv |-> NoResults]
    /\ err = [i \in Inv |-> NoErr]
    /\ result = [i \in Inv |-> NoResult]
    /\ branch = [i \in Inv |-> "none"]
    /\ out = [i \in Inv |-> NoOut]
    /\ speedlineCalls = [i \in Inv |-> 0]
    /\ inputs = [i \in Inv |-> NoInputs]

\* line 74: audit(artifacts) reads artifacts.traceContents and builds the
\* chain.  The read throws out of audit when artifacts is absent.
Call(i) ==
    /\ pc[i] = "start"
    /\ \E a \in ArtifactsValues :
          /\ inputs' = [inputs EXCEPT ![i].artifacts = a]
          /\ pc' = [pc EXCEPT ![i] = IF a = "undefined" THEN "thrown" ELSE "awaitTrace"]
    /\ UNCHANGED <<trace, results, err, result, branch, out, speedlineCalls>>

\* line 74: the promise Promise.resolve(artifacts.traceContents) settles
TraceSettle(i) ==
    /\ pc[i] = "awaitTrace"
    /\ \E o \in TraceOutcomes :
          /\ inputs' = [inputs EXCEPT ![i].trace = o]
          /\ IF o.k = "resolve"
             THEN /\ trace' = [trace EXCEPT ![i] = o.val]
                  /\ pc' = [pc EXCEPT ![i] = "checkTrace"]
                  /\ err' = err
             ELSE /\ err' = [err EXCEPT ![i] = o.err]
                  /\ pc' = [pc EXCEPT ![i] = "recover"]
                  /\ trace' = trace
    /\ UNCHANGED <<results, result, branch, out, speedlineCalls>>

\* lines 74-78: the first handler
CheckTrace(i) ==
    /\ pc[i] = "checkTrace"
    /\ IF TraceIsBad(trace[i])
       THEN /\ err' = [err EXCEPT ![i] = Error(FAILURE_MESSAGE)]
            /\ pc' = [pc EXCEPT ![i] = "recover"]
            /\ UNCHANGED <<speedlineCalls, inputs>>
       ELSE /\ speedlineCalls' = [speedlineCalls EXCEPT ![i] = @ + 1]
            /\ \E o \in speedline :
                  /\ inputs' = [inputs EXCEPT ![i].speedline = o]
                  /\ IF o.k = "throw"
                     THEN /\ err' = [err EXCEPT ![i] = o.err]
                          /\ pc' = [pc EXCEPT ![i] = "recover"]
                     ELSE /\ pc' = [pc EXCEPT ![i] = "awaitSpeedline"]
                          /\ err' = err
    /\ UNCHANGED <<trace, results, result, branch, out>>

\* line 78: the promise speedline returned settles
SpeedlineSettle(i) ==
    /\ pc[i] = "awaitSpeedline"
    /\ LET o == inputs[i].speedline
       IN  IF o.k = "resolve"
           THEN /\ results' = [results EXCEPT ![i] = o.val]
                /\ pc' = [pc EXCEPT ![i] = "score"]
                /\ err' = err
           ELSE /\ err' = [err EXCEPT ![i] = o.err]
                /\ pc' = [pc EXCEPT ![i] = "recover"]
                /\ results' = results
    /\ UNCHANGED <<trace, result, branch, out, speedlineCalls, inputs>>

\* lines 79-97: the scoring handler
Score(i) ==
    /\ pc[i] = "score"
    /\ IF results[i].t = "undefined"
       THEN /\ err' = [err EXCEPT ![i] = ResultsTypeError]
            /\ pc' = [pc EXCEPT ![i] = "recover"]
            /\ UNCHANGED <<result, branch, inputs>>
       ELSE LET distribution == getLogNormalDistribution(SCORING_MEDIAN,
                                    SCORING_POINT_OF_DIMINISHING_RETURNS)
            IN  \E s \in computeComplementaryPercentile(distribution,
                                                        results[i].speedIndex) :
                   /\ inputs' = [inputs EXCEPT ![i].scoring = s]
                   /\ IF s.k = "throw"
                      THEN /\ err' = [err EXCEPT ![i] = ScoringError]
                           /\ pc' = [pc EXCEPT ![i] = "recover"]
                           /\ UNCHANGED <<result, branch>>
                      ELSE /\ result' = [result EXCEPT ![i] =
                                            ScoreResult(s.p, results[i].speedIndex)]
                           /\ branch' = [branch EXCEPT ![i] = "scored"]
                           /\ pc' = [pc EXCEPT ![i] = "generate"]
                           /\ err' = err
    /\ UNCHANGED <<trace, results, out, speedlineCalls>>

\* lines 98-104: the recovery handler.  Reading err.message throws when err
\* is undefined or null, and the chain is then rejected: the last handler
\* has no rejection handler.
Recover(i) ==
    /\ pc[i] = "recover"
    /\ IF err[i].k = "nullish"
       THEN /\ pc' = [pc EXCEPT ![i] = "rejected"]
            /\ UNCHANGED <<result, branch>>
       ELSE /\ result' = [result EXCEPT ![i] = RecoverResult(err[i])]
            /\ branch' = [branch EXCEPT ![i] = "failed"]
            /\ pc' = [pc EXCEPT ![i] = "generate"]
    /\ UNCHANGED <<trace, results, err, out, speedlineCalls, inputs>>

\* lines 105-112: the last handler
Generate(i) ==
    /\ pc[i] = "generate"
    /\ LET r == HandlerResult(i)
       IN  out' = [out EXCEPT ![i] =
                      generateAuditResult([value |-> r.score,
                                           rawValue |-> r.rawValue,
                                           debugString |-> r.debugString,
                                           optimalValue |-> optimalValue])]
    /\ pc' = [pc EXCEPT ![i] = "fulfilled"]
    /\ UNCHANGED <<trace, results, err, result, branch, speedlineCalls, inputs>>

Next ==
    \E i \in Inv :
        \/ Call(i)
        \/ TraceSettle(i)
        \/ CheckTrace(i)
        \/ SpeedlineSettle(i)
        \/ Score(i)
        \/ Recover(i)
        \/ Generate(i)

Spec == Init /\ [][Next]_vars

---------------------------------------------------------------------------
\* Properties

Fulfilled(i) == pc[i] = "fulfilled"

\* the trace of invocation i was obtained and is an array
TraceWellFormed(i) ==
    inputs[i].trace.k = "resolve" /\ inputs[i].trace.val = "array"

\* the measurement step of invocation i produced a results value
MeasurementObtained(i) ==
    TraceWellFormed(i) /\ inputs[i].speedline.k = "resolve"

\* the value of results.speedIndex in invocation i
Measurement(i) == inputs[i].speedline.val.speedIndex

\* a fault was raised at some stage of invocation i
Faulted(i) ==
    \/ inputs[i].artifacts = "undefined"
    \/ inputs[i].trace.k = "reject"
    \/ inputs[i].trace.k = "resolve" /\ inputs[i].trace.val # "array"
    \/ inputs[i].speedline.k \in {"throw", "reject"}
    \/ inputs[i].speedline.k = "resolve" /\ inputs[i].speedline.val.t = "undefined"
    \/ inputs[i].scoring.k = "throw"

IsInteger(x) == IsNum(x) /\ x.v % 1000 = 0

\* C1: every invocation in which a fault is raised, at whatever stage, ends
\* with a structured result whose score is -1: audit never throws and its
\* promise is never rejected.
C1_EveryFaultRecovered ==
    \A i \in Inv :
        /\ pc[i] \notin {"thrown", "rejected"}
        /\ (Fulfilled(i) /\ Faulted(i)) => out[i].score = Whole(-1)

\* C2: the score of every result is an integer, either -1 or in 0..100.
C2_ScoreInRange ==
    \A i \in Inv :
        Fulfilled(i) =>
            /\ IsInteger(out[i].score)
            /\ out[i].score = Whole(-1)
                 \/ (0 <= out[i].score.v /\ out[i].score.v <= 100 * 1000)

\* C3: when traceContents resolves to an absent value or to one that is not
\* an array, speedline is never called and the result is score -1 with the
\* fixed message and no rawValue.
C3_BadTraceNotFound ==
    \A i \in Inv :
        (inputs[i].trace.k = "resolve" /\ inputs[i].trace.val # "array") =>
            /\ speedlineCalls[i] = 0
            /\ Fulfilled(i) =>
                  /\ out[i].score = Whole(-1)
                  /\ out[i].debugString = Str(FAILURE_MESSAGE)
                  /\ out[i].rawValue = Undefined

C3_Witness ==
    \E i, j \in Inv :
        /\ Fulfilled(i)
        /\ inputs[i].trace.k = "resolve"
        /\ inputs[i].trace.val = "object"
        /\ Fulfilled(j)
        /\ inputs[j].trace.k = "resolve"
        /\ inputs[j].trace.val = "undefined"

\* C4: when the trace is an array and the measurement step resolves to a
\* result that is absent or whose speedIndex is absent or not a number, the
\* result is score -1 with the fixed message.
C4_MalformedMeasurementNotFound ==
    \A i \in Inv :
        ( /\ Fulfilled(i)
          /\ MeasurementObtained(i)
          /\ \/ inputs[i].speedline.val.t = "undefined"
             \/ ~IsNum(Measurement(i)) ) =>
            /\ out[i].score = Whole(-1)
            /\ out[i].debugString = Str(FAILURE_MESSAGE)

FullSuccess(o) ==
    /\ IsInteger(o.score) /\ 0 <= o.score.v /\ o.score.v <= 100 * 1000
    /\ o.rawValue # Undefined
    /\ o.debugString = NoString

FullFailure(o) ==
    /\ o.score = Whole(-1)
    /\ o.rawValue = Undefined
    /\ o.debugString.t = "string" /\ o.debugString.s # ""

\* C5: every result is a full success (score in 0..100, a rawValue, no debug
\* message) or a full failure (score -1, no rawValue, a non-empty debug
\* message).
C5_SuccessOrFailure ==
    \A i \in Inv : Fulfilled(i) => FullSuccess(out[i]) \/ FullFailure(out[i])

\* C6: a rawValue, when present, is a non-negative integer, the measurement
\* rounded to the nearest integer.
C6_RawValueRounded ==
    \A i \in Inv :
        (Fulfilled(i) /\ out[i].rawValue # Undefined) =>
            /\ IsInteger(out[i].rawValue)
            /\ out[i].rawValue.v >= 0
            /\ IsNum(Measurement(i))
            /\ 2 * out[i].rawValue.v - 1000 <= 2 * Measurement(i).v
            /\ 2 * Measurement(i).v < 2 * out[i].rawValue.v + 1000

\* the state of an invocation whose chain was built
AuditState(i) ==
    CASE pc[i] = "rejected" -> "rejected"
      [] pc[i] # "rejected" /\ branch[i] = "none" -> "pending"
      [] OTHER -> branch[i]

\* C7: an invocation is pending until it becomes scored or failed, which it
\* stays; it ends in one of the two; speedline is called at most once; and
\* it is scored only after the measurement was obtained.
C7_StateMachine ==
    [][\A i \in Inv :
          /\ AuditState(i)' \in {"pending", "scored", "failed"}
          /\ AuditState(i) \in {"scored", "failed"} => AuditState(i)' = AuditState(i)
          /\ speedlineCalls'[i] <= 1
          /\ AuditState(i)' = "scored" => MeasurementObtained(i)']_vars

\* how invocation i ended
Final(i) == [k |-> pc[i], out |-> out[i]]

AloneRecovered(e) ==
    IF e.k = "nullish"
    THEN [k |-> "rejected", out |-> NoOut]
    ELSE LET r == RecoverResult(e)
         IN  [k |-> "fulfilled",
              out |-> generateAuditResult([value |-> r.score,
                                           rawValue |-> r.rawValue,
                                           debugString |-> r.debugString,
                                           optimalValue |-> optimalValue])]

\* what an invocation with the inputs in produces when it runs alone, its
\* handlers one after the other
Alone(in) ==
    IF in.artifacts = "undefined" THEN [k |-> "thrown", out |-> NoOut]
    ELSE IF in.trace.k = "reject" THEN AloneRecovered(in.trace.err)
    ELSE IF in.trace.val # "array" THEN AloneRecovered(Error(FAILURE_MESSAGE))
    ELSE IF in.speedline.k # "resolve" THEN AloneRecovered(in.speedline.err)
    ELSE IF in.speedline.val.t = "undefined" THEN AloneRecovered(ResultsTypeError)
    ELSE IF in.scoring.k = "throw" THEN AloneRecovered(ScoringError)
    ELSE LET r == ScoreResult(in.scoring.p, in.speedline.val.speedIndex)
         IN  [k |-> "fulfilled",
              out |-> generateAuditResult([value |-> r.score,
                                           rawValue |-> r.rawValue,
                                           debugString |-> r.debugString,
                                           optimalValue |-> optimalValue])]

Ended(i) == pc[i] \in {"thrown", "rejected", "fulfilled"}

\* C8: with the handlers of concurrent invocations interleaved in any
\* order, each invocation ends as it would when run alone on its own
\* artifacts and its own measurement outcome.
C8_Independent ==
    \A i \in Inv : Ended(i) => Final(i) = Alone(inputs[i])

C8_Witness ==
    \E i, j \in Inv :
        /\ Fulfilled(i) /\ branch[i] = "scored"
        /\ Ended(j) /\ branch[j] # "scored"
        /\ out[i] # out[j]

\* clamp(round(100 * p), 0, 100), p in thousandths
ClampRound(p) ==
    IF ~IsNum(p) THEN p
    ELSE LET r == (100 * p.v + 500) \div 1000
         IN  Whole(IF r < 0 THEN 0 ELSE IF r > 100 THEN 100 ELSE r)

\* C9: the score computed from the percentile p (times 100, clamped, then
\* rounded) is clamp(round(100 * p), 0, 100), also for p outside [0, 1].
C9_ClampThenRound ==
    \A i \in Inv :
        branch[i] = "scored" => result[i].score = ClampRound(inputs[i].scoring.p)

C9_Witness ==
    \E i, j \in Inv :
        /\ branch[i] = "scored" /\ IsNum(inputs[i].scoring.p)
        /\ inputs[i].scoring.p.v < 0
        /\ branch[j] = "scored" /\ IsNum(inputs[j].scoring.p)
        /\ inputs[j].scoring.p.v > 1000

ScoredValid(i) ==
    Fulfilled(i) /\ branch[i] = "scored" /\ IsValidMeasurement(Measurement(i))

\* C10: of two valid measurements, the larger never gets the higher score.
C10_Monotone ==
    \A i, j \in Inv :
        (ScoredValid(i) /\ ScoredValid(j) /\ Measurement(i).v < Measurement(j).v) =>
            out[i].score.v >= out[j].score.v

C10_Witness ==
    \E i, j \in Inv :
        /\ ScoredValid(i) /\ ScoredValid(j)
        /\ Measurement(i).v < Measurement(j).v
        /\ out[i].score.v > out[j].score.v

===========================================================================
